---- MODULE Spec2Model ----
(***************************************************************************)
(* Model of the adaptive, rate-limited polling engine of sportspuff-api:   *)
(* APITracker (sliding-window request budget), AdaptivePollingManager      *)
(* (window gate, games-today pre-check, interval policy), LivePoller       *)
(* (poll_once, _poll_league, _update_live_games, start_polling),           *)
(* ScheduleUpdater (update_league, _store_games) and                       *)
(* BaseCollector.upsert_game over the games table.                         *)
(*                                                                         *)
(* Time is counted in whole seconds.  The wall clock is epoch + now, where *)
(* epoch is the instant the process started and now the seconds elapsed    *)
(* since.  Optional integers (nullable score columns) use NoneInt.         *)
(***************************************************************************)
EXTENDS Integers, Sequences, FiniteSets, TLC

\* ------------------------------------------------------------------ bounds
\* Seconds of elapsed time explored.
MaxTime == 61
\* Longest batch of snapshots a collector call returns.
MaxBatch == 1
\* Configured per-minute budgets (settings, read from the environment).
nba_max_requests_per_minute == 2
mlb_max_requests_per_minute == 1
nfl_max_requests_per_minute == 1
\* A budget switched off in the environment (WNBA_MAX_REQUESTS_PER_MINUTE=0).
wnba_max_requests_per_minute == 0

\* --------------------------------------------------------------- constants
WindowSecs == 60
DaySecs == 86400
NoneInt == 0 - 1

Leagues == {"NBA", "MLB", "NFL"}

\* ---------------------------------------------------------------- settings
default_poll_interval == 120
close_game_poll_interval == 60
scheduled_game_poll_interval == 300
nba_close_game_threshold == 10
nfl_close_game_threshold == 10
mlb_close_game_threshold == 3

get_close_game_threshold(league) ==
    CASE league = "NBA" -> nba_close_game_threshold
      [] league = "NFL" -> nfl_close_game_threshold
      [] league = "MLB" -> mlb_close_game_threshold
      [] OTHER -> nba_close_game_threshold

get_max_requests_per_minute(league) ==
    CASE league = "NBA" -> nba_max_requests_per_minute
      [] league = "MLB" -> mlb_max_requests_per_minute
      [] league = "NFL" -> nfl_max_requests_per_minute
      [] league = "WNBA" -> wnba_max_requests_per_minute
      [] OTHER -> 60

VARIABLES
    epoch,            \* wall-clock second at which the process started
    now,              \* seconds elapsed since epoch
    request_history,  \* APITracker.request_history: league -> deque of timestamps
    daily_usage,      \* APITracker.daily_usage: league -> count
    last_reset,       \* APITracker.last_reset: day of the last daily reset
    request_times,    \* BaseCollector.request_times of each league's collector
    games,            \* rows of the games table
    next_id,          \* next value of the games.id sequence
    polling_hours,    \* settings.live_polling_hours_list
    po,               \* LivePoller.poll_once in progress: leagues left, results
    rc,               \* reconciliations in progress: position and locals
    is_running,       \* LivePoller.is_running
    sp,               \* LivePoller.start_polling: position and locals
    out,              \* argument and result of the last pure query
    last              \* what the most recent operation did (observation only)

vars == <<epoch, now, request_history, daily_usage, last_reset, request_times, games, next_id,
          polling_hours, po, rc, is_running, sp, out, last>>

\* ------------------------------------------------------------------ clock
Hms(h, m, sec) == h * 3600 + m * 60 + sec
Clock == epoch + now
TimeOfDay(t) == t % DaySecs
DateOf(t) == t \div DaySecs
Today == DateOf(Clock)

\* -------------------------------------------------------------- APITracker
RECURSIVE PopOld(_, _)
PopOld(q, cutoff) ==
    IF q /= <<>> /\ Head(q) < cutoff THEN PopOld(Tail(q), cutoff) ELSE q

cleanup_old_requests(hist, t) ==
    [l \in DOMAIN hist |-> PopOld(hist[l], t - WindowSecs)]

\* The budget test admitting one request more than the maximum.
can_make_request_inclusive(hist, league, t) ==
    Len(cleanup_old_requests(hist, t)[league]) <= get_max_requests_per_minute(league)

can_make_request(hist, league, t) ==
    Len(cleanup_old_requests(hist, t)[league]) < get_max_requests_per_minute(league)

\* record_request that keeps one deque for every league.
record_request_shared(hist, league, t) ==
    [l \in DOMAIN hist |-> Append(hist[l], t)]

record_request(hist, league, t) ==
    [hist EXCEPT ![league] = Append(@, t)]

\* The result that stands for an IndexError raised by deque[0].
IndexError == 0 - 2

\* The wait time without its floor at zero.
get_wait_time_unfloored(hist, league, t_cleanup, t) ==
    LET history == cleanup_old_requests(hist, t_cleanup)[league]
    IN IF Len(history) < get_max_requests_per_minute(league) THEN 0
       ELSE IF history = <<>> THEN IndexError
       ELSE WindowSecs - (t - Head(history))

\* APITracker.get_wait_time: the purge reads the clock at t_cleanup, the
\* wait time is computed from a second reading t >= t_cleanup.  With no
\* timestamp left and a budget of 0, request_history[league][0] raises.
get_wait_time(hist, league, t_cleanup, t) ==
    LET history == cleanup_old_requests(hist, t_cleanup)[league]
        wait_time == WindowSecs - (t - Head(history))
    IN IF Len(history) < get_max_requests_per_minute(league) THEN 0
       ELSE IF history = <<>> THEN IndexError
       ELSE IF wait_time < 0 THEN 0 ELSE wait_time

\* ------------------------------------------------------------- games table
\* A snapshot is the game_data dict a collector returns; a row is a Game.
Statuses == {"scheduled", "in_progress", "final"}

\* An insert that leaves the scores of the new row unset.
NewRowWithoutScores(id, league, snap, t) ==
    [id |-> id, league |-> league, game_id |-> snap.game_id,
     game_date |-> snap.game_date, game_status |-> snap.game_status,
     home_score_total |-> NoneInt,
     visitor_score_total |-> NoneInt,
     is_final |-> snap.is_final, updated_at |-> t]

NewRow(id, league, snap, t) ==
    [id |-> id, league |-> league, game_id |-> snap.game_id,
     game_date |-> snap.game_date, game_status |-> snap.game_status,
     home_score_total |-> snap.home_score_total,
     visitor_score_total |-> snap.visitor_score_total,
     is_final |-> snap.is_final, updated_at |-> t]

\* for key, value in game_data.items(): if value is not None: setattr(...)
SetAttrs(row, league, snap, t) ==
    [row EXCEPT !.league = league,
                !.game_id = snap.game_id,
                !.game_date = snap.game_date,
                !.game_status = snap.game_status,
                !.home_score_total =
                    IF snap.home_score_total = NoneInt THEN @ ELSE snap.home_score_total,
                !.visitor_score_total =
                    IF snap.visitor_score_total = NoneInt THEN @ ELSE snap.visitor_score_total,
                !.is_final = snap.is_final,
                !.updated_at = t]

Matching(rows, league, game_id) ==
    {r \in rows : r.league = league /\ r.game_id = game_id}

\* Query.first(): the matching row with the lowest id.
First(S) == CHOOSE r \in S : \A q \in S : r.id <= q.id

\* BaseCollector.upsert_game; db is [games, next_id].
upsert_game(db, league, snap, t) ==
    LET found == Matching(db.games, league, snap.game_id) IN
    IF found /= {}
    THEN [db EXCEPT !.games = (@ \ {First(found)})
                                \cup {SetAttrs(First(found), league, snap, t)}]
    ELSE [games |-> db.games \cup {NewRow(db.next_id, league, snap, t)},
          next_id |-> db.next_id + 1]

\* One iteration of the loop of LivePoller._update_live_games.  An entry is
\* [data |-> snapshot, fail |-> the store rejects this snapshot's commit].
update_live_game(db, league, entry, t) ==
    LET found == Matching(db.games, league, entry.data.game_id) IN
    IF entry.fail THEN db
    ELSE IF found /= {}
    THEN [db EXCEPT !.games = (@ \ {First(found)})
                                \cup {SetAttrs(First(found), league, entry.data, t)}]
    ELSE upsert_game(db, league, entry.data, t)

\* The batch that ends at the first snapshot that fails.
RECURSIVE update_live_games_abort(_, _, _, _)
update_live_games_abort(db, league, feed, t) ==
    IF feed = <<>> \/ Head(feed).fail THEN [db |-> db, count |-> 0]
    ELSE LET db1 == update_live_game(db, league, Head(feed), t)
             rest == update_live_games_abort(db1, league, Tail(feed), t)
         IN [db |-> rest.db, count |-> rest.count + 1]

\* LivePoller._update_live_games: [db, count] after the whole batch.
RECURSIVE update_live_games(_, _, _, _)
update_live_games(db, league, feed, t) ==
    IF feed = <<>> THEN [db |-> db, count |-> 0]
    ELSE LET db1 == update_live_game(db, league, Head(feed), t)
             rest == update_live_games(db1, league, Tail(feed), t)
         IN [db |-> rest.db,
             count |-> rest.count + (IF Head(feed).fail THEN 0 ELSE 1)]

\* ScheduleUpdater._store_games: [db, count] after the whole batch.
RECURSIVE store_games(_, _, _, _)
store_games(db, league, feed, t) ==
    IF feed = <<>> THEN [db |-> db, count |-> 0]
    ELSE LET db1 == IF Head(feed).fail THEN db
                    ELSE upsert_game(db, league, Head(feed).data, t)
             rest == store_games(db1, league, Tail(feed), t)
         IN [db |-> rest.db,
             count |-> rest.count + (IF Head(feed).fail THEN 0 ELSE 1)]

\* database.get_db_session: the commit on leaving the block can raise only
\* when the last statement of the block left a transaction open.
ExitCanFail(feed) == feed /= <<>> /\ feed[Len(feed)].fail

\* -------------------------------------------------- AdaptivePollingManager
\* should_poll_today: any non-final game dated today, of any league.
should_poll_today(rows, today) ==
    {g \in rows : g.game_date = today /\ g.is_final = FALSE} /= {}

\* A configured range "HH:MM-HH:MM" is the tuple of the numbers written in
\* it, <<start hour, start minute, end hour, end minute>>; a string that
\* does not split into two times is a tuple of another length.
\* datetime.strptime(s, '%H:%M').time(), as the second of the day; the
\* parse raises ValueError outside 0..23 and 0..59.
ValidTime(h, m) == h \in 0..23 /\ m \in 0..59
ParseTime(h, m) == h * 3600 + m * 60
WellFormed(range) ==
    /\ Len(range) = 4
    /\ ValidTime(range[1], range[2])
    /\ ValidTime(range[3], range[4])

\* The body of the loop of should_poll_now for one well-formed range.
\* The overnight range read as a conjunction.
RangeMatchesSameDay(range, tod) ==
    LET start_time == ParseTime(range[1], range[2])
        end_time == ParseTime(range[3], range[4])
    IN IF start_time > end_time
       THEN tod >= start_time /\ tod <= end_time
       ELSE start_time <= tod /\ tod <= end_time

RangeMatches(range, tod) ==
    LET start_time == ParseTime(range[1], range[2])
        end_time == ParseTime(range[3], range[4])
    IN IF start_time > end_time
       THEN tod >= start_time \/ tod <= end_time
       ELSE start_time <= tod /\ tod <= end_time

\* should_poll_now that gives up at the first malformed range.
RECURSIVE should_poll_now_strict(_, _)
should_poll_now_strict(hours_list, tod) ==
    IF hours_list = <<>> THEN FALSE
    ELSE IF ~WellFormed(Head(hours_list)) THEN FALSE
    ELSE IF RangeMatches(Head(hours_list), tod) THEN TRUE
    ELSE should_poll_now_strict(Tail(hours_list), tod)

\* should_poll_now: the first matching range returns True, a malformed one
\* is skipped (except ValueError: continue).
RECURSIVE should_poll_now(_, _)
should_poll_now(hours_list, tod) ==
    IF hours_list = <<>> THEN FALSE
    ELSE IF WellFormed(Head(hours_list)) /\ RangeMatches(Head(hours_list), tod)
         THEN TRUE
         ELSE should_poll_now(Tail(hours_list), tod)

\* Optional[int] result of determine_poll_interval: NoInterval is None.
NoInterval == 0

abs(x) == IF x < 0 THEN 0 - x ELSE x

active_games(rows, league, today) ==
    {g \in rows : /\ g.league = league
                  /\ g.game_date >= today - 1
                  /\ g.game_date <= today
                  /\ g.is_final = FALSE}

\* Close games with a differential strictly below the threshold.
close_games_strict(rows, league, today) ==
    {g \in active_games(rows, league, today) :
        /\ g.game_status = "in_progress"
        /\ g.home_score_total /= NoneInt
        /\ g.visitor_score_total /= NoneInt
        /\ abs(g.home_score_total - g.visitor_score_total)
              < get_close_game_threshold(league)}

close_games(rows, league, today) ==
    {g \in active_games(rows, league, today) :
        /\ g.game_status = "in_progress"
        /\ g.home_score_total /= NoneInt
        /\ g.visitor_score_total /= NoneInt
        /\ abs(g.home_score_total - g.visitor_score_total)
              <= get_close_game_threshold(league)}

\* Every active game counted as in progress.
in_progress_games_any(rows, league, today) ==
    active_games(rows, league, today)

in_progress_games(rows, league, today) ==
    {g \in active_games(rows, league, today) : g.game_status = "in_progress"}

\* The policy that keeps the scheduled interval when no game is active.
determine_poll_interval_no_stop(rows, league, t) ==
    LET today == DateOf(t)
        active == active_games(rows, league, today)
        current_hour == TimeOfDay(t) \div 3600
    IN
    IF active = {}
    THEN (IF league = "NFL" THEN 3600 ELSE scheduled_game_poll_interval)
    ELSE IF league = "NFL"
    THEN (IF current_hour >= 23 \/ current_hour < 7 THEN 3600 ELSE 60)
    ELSE IF close_games(rows, league, today) /= {}
    THEN close_game_poll_interval
    ELSE IF in_progress_games(rows, league, today) /= {}
    THEN (IF league = "NBA" THEN close_game_poll_interval
          ELSE default_poll_interval)
    ELSE scheduled_game_poll_interval

\* The policy whose NFL night starts after the hour of 23.
determine_poll_interval_after_23(rows, league, t) ==
    LET today == DateOf(t)
        active == active_games(rows, league, today)
        current_hour == TimeOfDay(t) \div 3600
    IN
    IF active = {}
    THEN (IF league = "NFL" THEN 3600 ELSE NoInterval)
    ELSE IF \A g \in active : g.is_final
    THEN (IF league = "NFL" THEN 3600 ELSE NoInterval)
    ELSE IF league = "NFL"
    THEN (IF current_hour > 23 \/ current_hour < 7 THEN 3600 ELSE 60)
    ELSE IF close_games(rows, league, today) /= {}
    THEN close_game_poll_interval
    ELSE IF in_progress_games(rows, league, today) /= {}
    THEN (IF league = "NBA" THEN close_game_poll_interval
          ELSE default_poll_interval)
    ELSE scheduled_game_poll_interval

\* AdaptivePollingManager.determine_poll_interval at wall-clock second t.
determine_poll_interval(rows, league, t) ==
    LET today == DateOf(t)
        active == active_games(rows, league, today)
        current_hour == TimeOfDay(t) \div 3600
    IN
    IF active = {}
    THEN (IF league = "NFL" THEN 3600 ELSE NoInterval)
    ELSE IF \A g \in active : g.is_final
    THEN (IF league = "NFL" THEN 3600 ELSE NoInterval)
    ELSE IF league = "NFL"
    THEN (IF current_hour >= 23 \/ current_hour < 7 THEN 3600 ELSE 60)
    ELSE IF close_games(rows, league, today) /= {}
    THEN close_game_poll_interval
    ELSE IF in_progress_games(rows, league, today) /= {}
    THEN (IF league = "NBA" THEN close_game_poll_interval
          ELSE default_poll_interval)
    ELSE scheduled_game_poll_interval

\* The interval of the last league that did not return None.
RECURSIVE get_next_poll_interval_last(_, _, _, _)
get_next_poll_interval_last(rows, leagues, t, min_interval) ==
    IF leagues = <<>> THEN min_interval
    ELSE LET interval == determine_poll_interval(rows, Head(leagues), t)
         IN get_next_poll_interval_last(rows, Tail(leagues), t,
                IF interval /= NoInterval THEN interval ELSE min_interval)

\* LivePoller._get_next_poll_interval: the minimum over the leagues that
\* did not return None.
RECURSIVE get_next_poll_interval(_, _, _, _)
get_next_poll_interval(rows, leagues, t, min_interval) ==
    IF leagues = <<>> THEN min_interval
    ELSE LET interval == determine_poll_interval(rows, Head(leagues), t)
         IN get_next_poll_interval(rows, Tail(leagues), t,
                IF interval /= NoInterval
                   /\ (min_interval = NoInterval \/ interval < min_interval)
                THEN interval ELSE min_interval)

\* -------------------------------------------------------------- LivePoller
\* LivePoller.collectors: the leagues that have a collector, in the order of
\* the dictionary (NHL and WNBA are left out of the model).
collectors == <<"NBA", "MLB", "NFL">>

\* self.collectors[league] raises KeyError.
has_collector(league) == \E i \in DOMAIN collectors : collectors[i] = league

\* The poll attempt that goes on to the fetch when the budget is spent.
poll_league_unbudgeted(st, ep, league, inp) ==
    LET t0 == ep + st.now
        t1 == t0 + inp.dur
        hist1 == cleanup_old_requests(st.hist, t0)
        rec1 == record_request(hist1, league, t1)
        upd == update_live_games(st.db, league, inp.feed, t1)
        skip == [st |-> st, ret |-> 0, escaped |-> FALSE, consulted |-> FALSE,
                 called |-> FALSE, records |-> 0]
    IN
    IF inp.pre_raises THEN [skip EXCEPT !.escaped = TRUE]
    ELSE IF ~should_poll_today(st.db.games, DateOf(t0)) THEN skip
    ELSE IF ~has_collector(league)
    THEN [st |-> [st EXCEPT !.hist = record_request(hist1, league, t0),
                            !.daily[league] = @ + 1],
          ret |-> 0, escaped |-> FALSE, consulted |-> TRUE,
          called |-> FALSE, records |-> 1]
    ELSE IF inp.fetch_raises
    THEN [st |-> [st EXCEPT !.now = @ + inp.dur, !.hist = rec1,
                            !.daily[league] = @ + 1],
          ret |-> 0, escaped |-> FALSE, consulted |-> TRUE,
          called |-> TRUE, records |-> 1]
    ELSE IF inp.exit_fails /\ ExitCanFail(inp.feed)
    THEN [st |-> [now |-> st.now + inp.dur,
                  hist |-> record_request(rec1, league, t1),
                  daily |-> [st.daily EXCEPT ![league] = @ + 2],
                  db |-> upd.db],
          ret |-> 0, escaped |-> FALSE, consulted |-> TRUE,
          called |-> TRUE, records |-> 2]
    ELSE [st |-> [now |-> st.now + inp.dur, hist |-> rec1,
                  daily |-> [st.daily EXCEPT ![league] = @ + 1],
                  db |-> upd.db],
          ret |-> upd.count, escaped |-> FALSE, consulted |-> TRUE,
          called |-> TRUE, records |-> 1]

\* The poll attempt that records a request only when the fetch returns.
poll_league_success_only(st, ep, league, inp) ==
    LET t0 == ep + st.now
        t1 == t0 + inp.dur
        hist1 == cleanup_old_requests(st.hist, t0)
        rec1 == record_request(hist1, league, t1)
        upd == update_live_games(st.db, league, inp.feed, t1)
        skip == [st |-> st, ret |-> 0, escaped |-> FALSE, consulted |-> FALSE,
                 called |-> FALSE, records |-> 0]
    IN
    IF inp.pre_raises THEN [skip EXCEPT !.escaped = TRUE]
    ELSE IF ~should_poll_today(st.db.games, DateOf(t0)) THEN skip
    ELSE IF ~can_make_request(st.hist, league, t0)
    THEN [skip EXCEPT !.st.hist = hist1, !.consulted = TRUE]
    ELSE IF ~has_collector(league)
    THEN [st |-> [st EXCEPT !.hist = hist1],
          ret |-> 0, escaped |-> FALSE, consulted |-> TRUE,
          called |-> FALSE, records |-> 0]
    ELSE IF inp.fetch_raises
    THEN [st |-> [st EXCEPT !.now = @ + inp.dur, !.hist = hist1],
          ret |-> 0, escaped |-> FALSE, consulted |-> TRUE,
          called |-> TRUE, records |-> 0]
    ELSE IF inp.exit_fails /\ ExitCanFail(inp.feed)
    THEN [st |-> [now |-> st.now + inp.dur,
                  hist |-> record_request(rec1, league, t1),
                  daily |-> [st.daily EXCEPT ![league] = @ + 2],
                  db |-> upd.db],
          ret |-> 0, escaped |-> FALSE, consulted |-> TRUE,
          called |-> TRUE, records |-> 2]
    ELSE [st |-> [now |-> st.now + inp.dur, hist |-> rec1,
                  daily |-> [st.daily EXCEPT ![league] = @ + 1],
                  db |-> upd.db],
          ret |-> upd.count, escaped |-> FALSE, consulted |-> TRUE,
          called |-> TRUE, records |-> 1]

\* LivePoller._poll_league.  st is [now, hist, daily, db]; inp says how the
\* collaborators behave during this call: pre_raises (the session of the
\* games-today pre-check raises), fetch_raises (get_live_scores raises),
\* feed (the snapshots it returns, each with its store outcome), exit_fails
\* (the commit on leaving the reconciliation session raises), dur (seconds
\* the fetch takes).  The result carries the state after the call, the
\* returned count and what the call did (called: the collector's fetch was
\* invoked).
poll_league(st, ep, league, inp) ==
    LET t0 == ep + st.now
        t1 == t0 + inp.dur
        hist1 == cleanup_old_requests(st.hist, t0)
        rec1 == record_request(hist1, league, t1)
        upd == update_live_games(st.db, league, inp.feed, t1)
        skip == [st |-> st, ret |-> 0, escaped |-> FALSE, consulted |-> FALSE,
                 called |-> FALSE, records |-> 0]
    IN
    IF inp.pre_raises THEN [skip EXCEPT !.escaped = TRUE]
    ELSE IF ~should_poll_today(st.db.games, DateOf(t0)) THEN skip
    ELSE IF ~can_make_request(st.hist, league, t0)
    THEN [skip EXCEPT !.st.hist = hist1, !.consulted = TRUE]
    ELSE IF ~has_collector(league)
    THEN [st |-> [st EXCEPT !.hist = record_request(hist1, league, t0),
                            !.daily[league] = @ + 1],
          ret |-> 0, escaped |-> FALSE, consulted |-> TRUE,
          called |-> FALSE, records |-> 1]
    ELSE IF inp.fetch_raises
    THEN [st |-> [st EXCEPT !.now = @ + inp.dur, !.hist = rec1,
                            !.daily[league] = @ + 1],
          ret |-> 0, escaped |-> FALSE, consulted |-> TRUE,
          called |-> TRUE, records |-> 1]
    ELSE IF inp.exit_fails /\ ExitCanFail(inp.feed)
    THEN [st |-> [now |-> st.now + inp.dur,
                  hist |-> record_request(rec1, league, t1),
                  daily |-> [st.daily EXCEPT ![league] = @ + 2],
                  db |-> upd.db],
          ret |-> 0, escaped |-> FALSE, consulted |-> TRUE,
          called |-> TRUE, records |-> 2]
    ELSE [st |-> [now |-> st.now + inp.dur, hist |-> rec1,
                  daily |-> [st.daily EXCEPT ![league] = @ + 1],
                  db |-> upd.db],
          ret |-> upd.count, escaped |-> FALSE, consulted |-> TRUE,
          called |-> TRUE, records |-> 1]

\* The body of the for loop of LivePoller.poll_once: try/except around
\* _poll_league, the league's entry of results.
poll_once_entry(r) == IF r.escaped THEN 0 ELSE r.ret

\* ScheduleUpdater.update_league for one date (days_ahead = 0).
update_league(st, ep, league, inp) ==
    LET t0 == ep + st.now
        t1 == t0 + inp.dur
        hist1 == cleanup_old_requests(st.hist, t0)
        rec1 == record_request(hist1, league, t1)
        upd == store_games(st.db, league, inp.feed, t1)
    IN
    IF ~can_make_request(st.hist, league, t0)
    THEN [st |-> [st EXCEPT !.hist = hist1], ret |-> 0, escaped |-> FALSE,
          consulted |-> TRUE, called |-> FALSE, records |-> 0]
    ELSE IF inp.fetch_raises
    THEN [st |-> [st EXCEPT !.now = @ + inp.dur, !.hist = rec1,
                            !.daily[league] = @ + 1],
          ret |-> 0, escaped |-> FALSE, consulted |-> TRUE,
          called |-> TRUE, records |-> 1]
    ELSE IF inp.exit_fails /\ ExitCanFail(inp.feed)
    THEN [st |-> [now |-> st.now + inp.dur,
                  hist |-> record_request(rec1, league, t1),
                  daily |-> [st.daily EXCEPT ![league] = @ + 2],
                  db |-> upd.db],
          ret |-> 0, escaped |-> FALSE, consulted |-> TRUE,
          called |-> TRUE, records |-> 2]
    ELSE [st |-> [now |-> st.now + inp.dur, hist |-> rec1,
                  daily |-> [st.daily EXCEPT ![league] = @ + 1],
                  db |-> upd.db],
          ret |-> upd.count, escaped |-> FALSE, consulted |-> TRUE,
          called |-> TRUE, records |-> 1]

\* ------------------------------------------------------------ input sets
\* Process start instant: day 1 at 01:59:30, inside the default polling
\* hours, which end 30 seconds later.
StartEpochs == {DaySecs + Hms(1, 59, 30)}
TickSteps == {60, 61}
FetchDurations == {0, 60}
LeagueLists == {<<"NBA", "MLB">>, <<"MLB", "NBA">>, <<"MLB">>}
PolledLeagues == {"NBA", "MLB"}
DefaultPollingHours == <<(<<12, 0, 2, 0>>)>>

Snap(id, d, status, home, visitor, final) ==
    [game_id |-> id, game_date |-> d, game_status |-> status,
     home_score_total |-> home, visitor_score_total |-> visitor,
     is_final |-> final]

\* Snapshots a live fetch returns on day d.
PollSnapshots(d) ==
    {Snap("g1", d, "in_progress", 1, 0, FALSE),
     Snap("g1", d, "final", 1, 0, TRUE)}

Entries(snaps) == [data : snaps, fail : BOOLEAN]

\* A live fetch of one league returns nothing or its one game.
PollFeeds(d) == {<<>>} \cup {<<e>> : e \in Entries(PollSnapshots(d))}

\* What the collaborators can do during one poll attempt.
PollInputs(feeds) ==
    {[pre_raises |-> TRUE, fetch_raises |-> FALSE, feed |-> <<>>,
      exit_fails |-> FALSE, dur |-> 0]}
    \cup {[pre_raises |-> FALSE, fetch_raises |-> TRUE, feed |-> <<>>,
           exit_fails |-> FALSE, dur |-> d] : d \in FetchDurations}
    \cup UNION {{[pre_raises |-> FALSE, fetch_raises |-> FALSE, feed |-> f,
                  exit_fails |-> x, dur |-> d] :
                    x \in {FALSE, ExitCanFail(f)}, d \in FetchDurations} :
                f \in feeds}

\* Stores the process can find at start: any subset of two games of day d.
BaseRows(d) ==
    {NewRow(1, "NBA", Snap("g1", d, "scheduled", NoneInt, NoneInt, FALSE), 0),
     NewRow(2, "MLB", Snap("g1", d, "in_progress", 1, 0, FALSE), 0)}

NoOp == [op |-> "none", league |-> "", called |-> FALSE, consulted |-> FALSE,
         records |-> 0, ret |-> 0, in_window |-> FALSE, had_today |-> FALSE]

Reconcilers == {"poller", "updater"}
NoRow == [id |-> 0]
NoSnap == [game_id |-> ""]
IdleReconciler ==
    [pc |-> "idle", league |-> "", left |-> 0, snap |-> NoSnap,
     loaded |-> NoRow, count |-> 0]
\* failed (observation only): the leagues whose latest collector call raised.
IdleLoop ==
    [pc |-> "idle", leagues |-> <<>>, pending |-> <<>>, wake |-> 0, cycle |-> 0,
     failed |-> {}]
NoOut == [fn |-> "none"]

IdlePollOnce ==
    [pc |-> "idle", leagues |-> <<>>, pending |-> <<>>, results |-> <<>>,
     raised |-> {}]

\* -------------------------------------------------------------------- Init
Init ==
    /\ epoch \in StartEpochs
    /\ now = 0
    /\ request_history = [l \in Leagues |-> <<>>]
    /\ daily_usage = [l \in Leagues |-> 0]
    /\ last_reset = DateOf(epoch)
    /\ request_times = [l \in Leagues |-> <<>>]
    /\ games \in SUBSET BaseRows(DateOf(epoch))
    /\ next_id = 3
    /\ polling_hours = DefaultPollingHours
    /\ po = IdlePollOnce
    /\ rc = [p \in Reconcilers |-> IdleReconciler]
    /\ is_running = FALSE
    /\ sp = IdleLoop
    /\ out = NoOut
    /\ last = NoOp

\* ----------------------------------------------------------------- actions
PollState ==
    [now |-> now, hist |-> request_history, daily |-> daily_usage,
     db |-> [games |-> games, next_id |-> next_id]]

\* Installs the state a call left behind.
Install(st) ==
    /\ now' = st.now
    /\ request_history' = st.hist
    /\ daily_usage' = st.daily
    /\ last_reset' = last_reset
    /\ request_times' = request_times
    /\ games' = st.db.games
    /\ next_id' = st.db.next_id

Observe(op, league, r) ==
    [op |-> op, league |-> league, called |-> r.called,
     consulted |-> r.consulted, records |-> r.records, ret |-> r.ret,
     in_window |-> should_poll_now(polling_hours, TimeOfDay(Clock)),
     had_today |-> {g \in games : g.league = league /\ g.game_date = Today} /= {}]

\* Time passes.
Tick(d) ==
    /\ po.pc = "idle"
    /\ now + d <= MaxTime
    /\ now' = now + d
    /\ last' = NoOp
    /\ UNCHANGED <<epoch, request_history, daily_usage, last_reset, request_times, games, next_id,
                   polling_hours, po, rc, is_running, sp, out>>

\* poll_once(leagues) is called.
PollOnceBegin(leagues) ==
    /\ po.pc = "idle"
    /\ po' = [IdlePollOnce EXCEPT !.pc = "running", !.leagues = leagues,
                                  !.pending = leagues]
    /\ last' = NoOp
    /\ UNCHANGED <<epoch, now, request_history, daily_usage, last_reset, request_times, games, next_id,
                   polling_hours, rc, is_running, sp, out>>

\* poll_once without its try/except: an exception of _poll_league ends it.
poll_once_iteration_unguarded(p, league, r) ==
    IF r.escaped THEN [p EXCEPT !.pc = "aborted", !.pending = <<>>]
    ELSE [p EXCEPT !.results = (league :> r.ret) @@ @, !.pending = Tail(@)]

\* The state of poll_once after the iteration for league with outcome r.
poll_once_iteration(p, league, r) ==
    [p EXCEPT !.results = (league :> poll_once_entry(r)) @@ @,
              !.pending = Tail(@)]

\* One iteration of the for loop of poll_once.
PollOnceStep(inp) ==
    /\ po.pc = "running"
    /\ po.pending /= <<>>
    /\ now + inp.dur <= MaxTime
    /\ LET league == Head(po.pending)
           r == poll_league(PollState, epoch, league, inp)
       IN /\ Install(r.st)
          /\ po' = [poll_once_iteration(po, league, r) EXCEPT
                       !.raised = IF r.called /\ inp.fetch_raises
                                  THEN @ \cup {league} ELSE @]
          /\ last' = Observe("poll", league, r)
    /\ UNCHANGED <<epoch, polling_hours, rc, is_running, sp, out>>

\* poll_once returns results.
PollOnceReturn ==
    /\ po.pc = "running"
    /\ po.pending = <<>>
    /\ po' = [po EXCEPT !.pc = "returned"]
    /\ last' = NoOp
    /\ UNCHANGED <<epoch, now, request_history, daily_usage, last_reset, request_times, games, next_id,
                   polling_hours, rc, is_running, sp, out>>

\* The caller of poll_once has consumed the results.
PollOnceForget ==
    /\ po.pc = "returned"
    /\ po' = IdlePollOnce
    /\ last' = NoOp
    /\ UNCHANGED <<epoch, now, request_history, daily_usage, last_reset, request_times, games, next_id,
                   polling_hours, rc, is_running, sp, out>>

\* ScheduleUpdater.update_league(league) for today.
UpdateLeague(league, inp) ==
    /\ po.pc = "idle"
    /\ ~inp.pre_raises
    /\ now + inp.dur <= MaxTime
    /\ LET r == update_league(PollState, epoch, league, inp)
       IN /\ Install(r.st)
          /\ last' = Observe("schedule", league, r)
    /\ UNCHANGED <<epoch, polling_hours, po, rc, is_running, sp, out>>

Next ==
    \/ \E d \in TickSteps : Tick(d)
    \/ \E ls \in LeagueLists : PollOnceBegin(ls)
    \/ \E inp \in PollInputs(PollFeeds(Today)) : PollOnceStep(inp)
    \/ PollOnceReturn
    \/ PollOnceForget
    \/ \E l \in PolledLeagues, inp \in PollInputs(PollFeeds(Today)) :
          UpdateLeague(l, inp)

Spec == Init /\ [][Next]_vars

\* ---------------------------------------------------------- reconciliation
\* The reconciliation loops of the live poller (_update_live_games) and of
\* the schedule updater (_store_games -> upsert_game), one statement group
\* at a time: each is a separate process with its own database session,
\* and every query and every commit is a separate round trip to the store.
StatusPairs ==
    {<<"scheduled", FALSE>>, <<"in_progress", FALSE>>, <<"final", TRUE>>}
ScorePairs == {<<NoneInt, NoneInt>>, <<2, 1>>}

\* Snapshots of the one game of a league on day d.
StoreSnapshots(d) ==
    {Snap("g1", d, st[1], sc[1], sc[2], st[2]) :
        st \in StatusPairs, sc \in ScorePairs}

\* Snapshots the two processes can hold of the same game at the same time.
RaceSnapshots(d) ==
    {Snap("g1", d, "scheduled", NoneInt, NoneInt, FALSE),
     Snap("g1", d, "in_progress", 2, 1, FALSE)}

StoreLeagues == {"NBA"}

\* _update_live_games(live_games, league) / _store_games(games, league) is
\* entered with a batch of n snapshots.
RcBegin(p, league, n) ==
    /\ rc[p].pc = "idle"
    /\ rc' = [rc EXCEPT ![p] = [IdleReconciler EXCEPT
                  !.pc = "next", !.league = league, !.left = n]]
    /\ UNCHANGED <<epoch, now, request_history, daily_usage, last_reset, request_times, games, next_id,
                   polling_hours, po, is_running, sp, out, last>>

\* for game_data in ...: the next snapshot of the batch.
RcNext(p, snap) ==
    /\ rc[p].pc = "next"
    /\ rc[p].left > 0
    /\ rc' = [rc EXCEPT ![p].pc = "query", ![p].snap = snap,
                        ![p].left = @ - 1, ![p].loaded = NoRow]
    /\ UNCHANGED <<epoch, now, request_history, daily_usage, last_reset, request_times, games, next_id,
                   polling_hours, po, is_running, sp, out, last>>

\* The batch is exhausted: the session is left and the count returned.
RcReturn(p) ==
    /\ rc[p].pc = "next"
    /\ rc[p].left = 0
    /\ rc' = [rc EXCEPT ![p] = IdleReconciler]
    /\ UNCHANGED <<epoch, now, request_history, daily_usage, last_reset, request_times, games, next_id,
                   polling_hours, po, is_running, sp, out, last>>

\* db.query(Game).filter(league, game_id).first(): with several matching
\* rows the one returned is not determined.
RcQuery(p) ==
    /\ rc[p].pc \in {"query", "upsert_query"}
    /\ LET found == Matching(games, rc[p].league, rc[p].snap.game_id)
       IN IF found /= {}
          THEN \E row \in found :
                  rc' = [rc EXCEPT ![p].loaded = row, ![p].pc = "update"]
          ELSE rc' = [rc EXCEPT
                  ![p].pc = IF p = "poller" /\ rc[p].pc = "query"
                            THEN "upsert_query" ELSE "insert"]
    /\ UNCHANGED <<epoch, now, request_history, daily_usage, last_reset, request_times, games, next_id,
                   polling_hours, po, is_running, sp, out, last>>

\* What the unit of work writes for an attribute: nothing when the value
\* set is None or equals the value loaded.
Flushed(current, loaded, value) ==
    IF value = NoneInt \/ value = loaded THEN current ELSE value
FlushedField(current, loaded, value) ==
    IF value = loaded THEN current ELSE value

\* The UPDATE with a final flag that is never taken back.
UpdateLoadedAbsorbing(row, loaded, league, snap, t) ==
    [row EXCEPT
        !.league = FlushedField(@, loaded.league, league),
        !.game_id = FlushedField(@, loaded.game_id, snap.game_id),
        !.game_date = FlushedField(@, loaded.game_date, snap.game_date),
        !.game_status = FlushedField(@, loaded.game_status, snap.game_status),
        !.home_score_total =
            Flushed(@, loaded.home_score_total, snap.home_score_total),
        !.visitor_score_total =
            Flushed(@, loaded.visitor_score_total, snap.visitor_score_total),
        !.is_final = @ \/ FlushedField(@, loaded.is_final, snap.is_final),
        !.updated_at = t]

\* The UPDATE of the loaded row as the store applies it to the current row.
UpdateLoaded(row, loaded, league, snap, t) ==
    [row EXCEPT
        !.league = FlushedField(@, loaded.league, league),
        !.game_id = FlushedField(@, loaded.game_id, snap.game_id),
        !.game_date = FlushedField(@, loaded.game_date, snap.game_date),
        !.game_status = FlushedField(@, loaded.game_status, snap.game_status),
        !.home_score_total =
            Flushed(@, loaded.home_score_total, snap.home_score_total),
        !.visitor_score_total =
            Flushed(@, loaded.visitor_score_total, snap.visitor_score_total),
        !.is_final = FlushedField(@, loaded.is_final, snap.is_final),
        !.updated_at = t]

Reconciled(p, ok) ==
    [op |-> "reconcile", league |-> rc[p].league,
     snap |-> rc[p].snap, ok |-> ok,
     was_final |-> \E r \in games : /\ r.league = rc[p].league
                                     /\ r.game_id = rc[p].snap.game_id
                                     /\ r.is_final,
     repeat |-> /\ last.op = "reconcile"
                /\ last.ok
                /\ last.league = rc[p].league
                /\ last.snap = rc[p].snap]

\* setattr ...; updated_at = utcnow(); db.commit(), or db.add(Game(**data));
\* db.commit().  With fail the commit raises: the transaction is rolled
\* back and the except clause of the loop goes on with the next snapshot.
RcWrite(p, fail) ==
    /\ rc[p].pc \in {"update", "insert"}
    /\ IF fail
       THEN /\ UNCHANGED <<games, next_id>>
            /\ rc' = [rc EXCEPT ![p].pc = "next"]
       ELSE /\ rc' = [rc EXCEPT ![p].pc = "next", ![p].count = @ + 1]
            /\ IF rc[p].pc = "update"
               THEN /\ games' =
                        {IF r.id = rc[p].loaded.id
                         THEN UpdateLoaded(r, rc[p].loaded, rc[p].league,
                                           rc[p].snap, Clock)
                         ELSE r : r \in games}
                    /\ UNCHANGED next_id
               ELSE /\ games' = games \cup
                        {NewRow(next_id, rc[p].league, rc[p].snap, Clock)}
                    /\ next_id' = next_id + 1
    /\ last' = Reconciled(p, ~fail)
    /\ UNCHANGED <<epoch, now, request_history, daily_usage, last_reset, request_times,
                   polling_hours, po, is_running, sp, out>>

\* Time passes between reconciliations.
StoreTick(d) ==
    /\ \A p \in Reconcilers : rc[p].pc = "idle"
    /\ now + d <= MaxTime
    /\ now' = now + d
    /\ UNCHANGED <<epoch, request_history, daily_usage, last_reset, request_times, games, next_id,
                   polling_hours, po, rc, is_running, sp, out, last>>

InitStore ==
    /\ epoch \in StartEpochs
    /\ now = 0
    /\ request_history = [l \in Leagues |-> <<>>]
    /\ daily_usage = [l \in Leagues |-> 0]
    /\ last_reset = DateOf(epoch)
    /\ request_times = [l \in Leagues |-> <<>>]
    /\ games \in SUBSET BaseRows(DateOf(epoch))
    /\ next_id = 3
    /\ polling_hours = DefaultPollingHours
    /\ po = IdlePollOnce
    /\ rc = [p \in Reconcilers |-> IdleReconciler]
    /\ is_running = FALSE
    /\ sp = IdleLoop
    /\ out = NoOut
    /\ last = NoOp

RcStep(p, snaps) ==
    \/ \E snap \in snaps : RcNext(p, snap)
    \/ RcReturn(p)
    \/ RcQuery(p)
    \/ \E fail \in BOOLEAN : RcWrite(p, fail)

\* One reconciliation at a time: a batch is entered only when no other is
\* in progress.
NextStore ==
    \/ \E d \in TickSteps : StoreTick(d)
    \/ \E p \in Reconcilers, l \in StoreLeagues, n \in 1..MaxBatch :
          (\A q \in Reconcilers : rc[q].pc = "idle") /\ RcBegin(p, l, n)
    \/ \E p \in Reconcilers : RcStep(p, StoreSnapshots(Today))

SpecStore == InitStore /\ [][NextStore]_vars

\* The live poller and the schedule updater run as two processes against
\* the same store.
NextRace ==
    \/ \E p \in Reconcilers, l \in StoreLeagues, n \in 1..MaxBatch :
          RcBegin(p, l, n)
    \/ \E p \in Reconcilers : RcStep(p, RaceSnapshots(Today))

SpecRace == InitStore /\ [][NextRace]_vars

\* ----------------------------------------------------------- start_polling
\* Seconds of elapsed time explored by the polling loop.
MaxLoopTime == 360
OutsideHoursSleep == 300

\* Process start instants of the loop: day 1 at 01:59:30 (the polling hours
\* end 30 seconds later) and at 11:55:00 (they begin 5 minutes later).
LoopEpochs == {DaySecs + Hms(1, 59, 30), DaySecs + Hms(11, 55, 0)}

\* start_polling(leagues): is_running = True, then the while loop.
StartPolling(leagues) ==
    /\ sp.pc = "idle"
    /\ po.pc = "idle"
    /\ is_running' = TRUE
    /\ sp' = [IdleLoop EXCEPT !.pc = "top", !.leagues = leagues]
    /\ last' = NoOp
    /\ UNCHANGED <<epoch, now, request_history, daily_usage, last_reset, request_times, games, next_id,
                   polling_hours, po, rc, out>>

\* The loop top without the polling-hours check.
LoopTopUngated ==
    /\ sp.pc = "top"
    /\ IF ~is_running
       THEN /\ sp' = [sp EXCEPT !.pc = "stopped"]
            /\ is_running' = FALSE
       ELSE /\ sp' = [sp EXCEPT !.pc = "poll", !.pending = sp.leagues,
                                !.cycle = now]
            /\ UNCHANGED is_running
    /\ last' = NoOp
    /\ UNCHANGED <<epoch, now, request_history, daily_usage, last_reset, request_times, games, next_id,
                   polling_hours, po, rc, out>>

\* while self.is_running: outside the polling hours sleep 5 minutes and
\* continue, otherwise enter the for loop over the leagues.  Leaving the
\* while loop runs the finally clause.
LoopTop ==
    /\ sp.pc = "top"
    /\ IF ~is_running
       THEN /\ sp' = [sp EXCEPT !.pc = "stopped"]
            /\ is_running' = FALSE
       ELSE /\ IF ~should_poll_now(polling_hours, TimeOfDay(Clock))
               THEN sp' = [sp EXCEPT !.pc = "sleep",
                                     !.wake = now + OutsideHoursSleep]
               ELSE sp' = [sp EXCEPT !.pc = "poll", !.pending = sp.leagues,
                                     !.cycle = now]
            /\ UNCHANGED is_running
    /\ last' = [NoOp EXCEPT !.op =
                   IF is_running
                      /\ ~should_poll_now(polling_hours, TimeOfDay(Clock))
                   THEN "outside_hours" ELSE "none"]
    /\ UNCHANGED <<epoch, now, request_history, daily_usage, last_reset, request_times, games, next_id,
                   polling_hours, po, rc, out>>

\* The leagues whose latest collector call raised, after an attempt.
FetchFailed(failed, league, r, inp) ==
    IF ~r.called THEN failed
    ELSE IF inp.fetch_raises THEN failed \cup {league}
    ELSE failed \ {league}

\* The for loop that goes on with the leagues after a stop request.
LoopPollNoBreak(inp) ==
    /\ sp.pc = "poll"
    /\ now + inp.dur <= MaxLoopTime
    /\ IF sp.pending = <<>>
       THEN /\ sp' = [sp EXCEPT !.pc = "interval", !.pending = <<>>]
            /\ last' = NoOp
            /\ UNCHANGED <<now, request_history, daily_usage, last_reset, request_times, games, next_id>>
       ELSE LET league == Head(sp.pending)
                r == poll_league(PollState, epoch, league, inp)
            IN /\ Install(r.st)
               /\ sp' = [sp EXCEPT !.pending = Tail(@),
                                    !.failed = FetchFailed(@, league, r, inp)]
               /\ last' = Observe("poll", league, r)
    /\ UNCHANGED <<epoch, polling_hours, po, rc, is_running, out>>

\* for league in leagues: if not self.is_running: break; try:
\* self._poll_league(league) except Exception: log.  last.op = "break"
\* names the first league the break leaves out.
LoopPoll(inp) ==
    /\ sp.pc = "poll"
    /\ now + inp.dur <= MaxLoopTime
    /\ IF sp.pending = <<>> \/ ~is_running
       THEN /\ sp' = [sp EXCEPT !.pc = "interval", !.pending = <<>>]
            /\ last' = IF sp.pending = <<>> THEN NoOp
                       ELSE [NoOp EXCEPT !.op = "break",
                                         !.league = Head(sp.pending)]
            /\ UNCHANGED <<now, request_history, daily_usage, last_reset, request_times, games, next_id>>
       ELSE LET league == Head(sp.pending)
                r == poll_league(PollState, epoch, league, inp)
            IN /\ Install(r.st)
               /\ sp' = [sp EXCEPT !.pending = Tail(@),
                                    !.failed = FetchFailed(@, league, r, inp)]
               /\ last' = Observe("poll", league, r)
    /\ UNCHANGED <<epoch, polling_hours, po, rc, is_running, out>>

\* The loop that sleeps the default interval when no league has work.
LoopIntervalNoStop(raises) ==
    /\ sp.pc = "interval"
    /\ LET next_interval ==
               get_next_poll_interval(games, sp.leagues, Clock, NoInterval)
       IN IF raises
          THEN /\ sp' = [sp EXCEPT !.pc = "raised"]
               /\ is_running' = FALSE
               /\ last' = [NoOp EXCEPT !.op = "raised"]
          ELSE /\ sp' = [sp EXCEPT !.pc = "sleep",
                                   !.wake = now +
                                       IF next_interval = NoInterval
                                       THEN default_poll_interval
                                       ELSE next_interval]
               /\ last' = [NoOp EXCEPT !.op = "sleep"]
               /\ UNCHANGED is_running
    /\ UNCHANGED <<epoch, now, request_history, daily_usage, last_reset, request_times, games, next_id,
                   polling_hours, po, rc, out>>

\* next_interval = self._get_next_poll_interval(leagues): None breaks out
\* of the loop, an exception of the session or of a league's query (raises)
\* leaves start_polling through the finally clause; otherwise
\* time.sleep(next_interval).
LoopInterval(raises) ==
    /\ sp.pc = "interval"
    /\ LET next_interval ==
               get_next_poll_interval(games, sp.leagues, Clock, NoInterval)
       IN IF raises
          THEN /\ sp' = [sp EXCEPT !.pc = "raised"]
               /\ is_running' = FALSE
               /\ last' = [NoOp EXCEPT !.op = "raised"]
          ELSE IF next_interval = NoInterval
          THEN /\ sp' = [sp EXCEPT !.pc = "stopped"]
               /\ is_running' = FALSE
               /\ last' = [NoOp EXCEPT !.op = "no_active_games"]
          ELSE /\ sp' = [sp EXCEPT !.pc = "sleep",
                                   !.wake = now + next_interval]
               /\ last' = [NoOp EXCEPT !.op = "sleep"]
               /\ UNCHANGED is_running
    /\ UNCHANGED <<epoch, now, request_history, daily_usage, last_reset, request_times, games, next_id,
                   polling_hours, po, rc, out>>

\* time.sleep returns.
LoopWake ==
    /\ sp.pc = "sleep"
    /\ sp.wake <= MaxLoopTime
    /\ now' = sp.wake
    /\ sp' = [sp EXCEPT !.pc = "top"]
    /\ last' = NoOp
    /\ UNCHANGED <<epoch, request_history, daily_usage, last_reset, request_times, games, next_id,
                   polling_hours, po, rc, is_running, out>>

\* stop_polling(), from the signal handler.
StopPolling ==
    /\ sp.pc \in {"top", "poll", "interval", "sleep"}
    /\ is_running
    /\ is_running' = FALSE
    /\ last' = [NoOp EXCEPT !.op = "stop"]
    /\ UNCHANGED <<epoch, now, request_history, daily_usage, last_reset, request_times, games, next_id,
                   polling_hours, po, rc, sp, out>>

InitLoop ==
    /\ epoch \in LoopEpochs
    /\ now = 0
    /\ request_history = [l \in Leagues |-> <<>>]
    /\ daily_usage = [l \in Leagues |-> 0]
    /\ last_reset = DateOf(epoch)
    /\ request_times = [l \in Leagues |-> <<>>]
    /\ games \in SUBSET BaseRows(DateOf(epoch))
    /\ next_id = 3
    /\ polling_hours = DefaultPollingHours
    /\ po = IdlePollOnce
    /\ rc = [p \in Reconcilers |-> IdleReconciler]
    /\ is_running = FALSE
    /\ sp = IdleLoop
    /\ out = NoOut
    /\ last = NoOp

\* The process runs either one poll_once pass or the polling loop.
NextLoop ==
    \/ \E ls \in LeagueLists : sp.pc = "idle" /\ PollOnceBegin(ls)
    \/ \E inp \in PollInputs(PollFeeds(Today)) : PollOnceStep(inp)
    \/ PollOnceReturn
    \/ \E ls \in LeagueLists : StartPolling(ls)
    \/ LoopTop
    \/ \E inp \in PollInputs(PollFeeds(Today)) : LoopPoll(inp)
    \/ \E raises \in BOOLEAN : LoopInterval(raises)
    \/ LoopWake
    \/ StopPolling

SpecLoop == InitLoop /\ [][NextLoop]_vars

\* ---------------------------------------------------------- one-shot polls
\* A league name given on the command line that has no collector.
UnknownLeague == "XFL"

\* poll_live_scores.py --once --league X: poll_once([X]).
OnceLists == {<<UnknownLeague>>, <<"MLB">>}

\* force_update_all that honours the polling hours: outside them it returns
\* without polling any league.
force_update_all_scheduled ==
    IF should_poll_now(polling_hours, TimeOfDay(Clock))
    THEN [IdlePollOnce EXCEPT !.pc = "running", !.leagues = collectors,
                              !.pending = collectors]
    ELSE [IdlePollOnce EXCEPT !.pc = "running", !.leagues = collectors]

\* LivePoller.force_update_all: poll_once() with leagues = None, i.e. every
\* key of self.collectors; the state of poll_once on entering its loop.
force_update_all ==
    [IdlePollOnce EXCEPT !.pc = "running", !.leagues = collectors,
                         !.pending = collectors]

\* poll_live_scores.py --force.
ForceUpdateAll ==
    /\ po.pc = "idle"
    /\ po' = force_update_all
    /\ last' = NoOp
    /\ UNCHANGED <<epoch, now, request_history, daily_usage, last_reset, request_times, games,
                   next_id, polling_hours, rc, is_running, sp, out>>

\* The tracker's dictionaries are defaultdicts: any league name is a key.
InitOnce ==
    /\ epoch \in LoopEpochs
    /\ now = 0
    /\ request_history = [l \in Leagues \cup {UnknownLeague} |-> <<>>]
    /\ daily_usage = [l \in Leagues \cup {UnknownLeague} |-> 0]
    /\ last_reset = DateOf(epoch)
    /\ request_times = [l \in Leagues |-> <<>>]
    /\ games \in SUBSET BaseRows(DateOf(epoch))
    /\ next_id = 3
    /\ polling_hours = DefaultPollingHours
    /\ po = IdlePollOnce
    /\ rc = [p \in Reconcilers |-> IdleReconciler]
    /\ is_running = FALSE
    /\ sp = IdleLoop
    /\ out = NoOut
    /\ last = NoOp

\* One invocation of the script with --force or --once.
NextOnce ==
    \/ ForceUpdateAll
    \/ \E ls \in OnceLists : PollOnceBegin(ls)
    \/ \E inp \in PollInputs(PollFeeds(Today)) : PollOnceStep(inp)
    \/ PollOnceReturn

SpecOnce == InitOnce /\ [][NextOnce]_vars

\* ---------------------------------------------------------------- tracker
\* Seconds between the two clock readings of get_wait_time.
ClockDelays == {0, 1}

\* Process start instants of the tracker: inside the default polling hours,
\* and 30 seconds before midnight.
TrackerEpochs == StartEpochs \cup {DaySecs + Hms(23, 59, 30)}

\* APITracker._reset_daily_usage_if_needed at day today.
reset_daily_usage_if_needed(daily, reset_day, today) ==
    IF today > reset_day
    THEN [daily |-> [l \in DOMAIN daily |-> 0], last_reset |-> today]
    ELSE [daily |-> daily, last_reset |-> reset_day]

\* APITracker.get_daily_usage(league): the state it leaves and its result.
get_daily_usage(daily, reset_day, league, today) ==
    LET r == reset_daily_usage_if_needed(daily, reset_day, today)
    IN [daily |-> r.daily, last_reset |-> r.last_reset,
        result |-> r.daily[league]]

\* Observation: the requests recorded so far on day d, per league.
NoneRecorded(d) == [op |-> "recorded", day |-> d, count |-> [l \in Leagues |-> 0]]

Recorded(obs, league, d) ==
    LET cur == IF obs.op = "recorded" /\ obs.day = d THEN obs ELSE NoneRecorded(d)
    IN [cur EXCEPT !.count[league] = @ + 1]

RecordedToday(league) ==
    IF last.op = "recorded" /\ last.day = Today THEN last.count[league] ELSE 0

InitTracker ==
    /\ epoch \in TrackerEpochs
    /\ now = 0
    /\ request_history = [l \in Leagues |-> <<>>]
    /\ daily_usage = [l \in Leagues |-> 0]
    /\ last_reset = DateOf(epoch)
    /\ request_times = [l \in Leagues |-> <<>>]
    /\ games = {}
    /\ next_id = 3
    /\ polling_hours = DefaultPollingHours
    /\ po = IdlePollOnce
    /\ rc = [p \in Reconcilers |-> IdleReconciler]
    /\ is_running = FALSE
    /\ sp = IdleLoop
    /\ out = NoOut
    /\ last = NoOp

TrackerTick(d) ==
    /\ now + d <= MaxTime
    /\ now' = now + d
    /\ out' = NoOut
    /\ UNCHANGED <<epoch, request_history, daily_usage, last_reset, request_times, games,
                   next_id, polling_hours, po, rc, is_running, sp, last>>

\* api_tracker.record_request(league, ...): callers record after a budget
\* check, and once more when the reconciliation that follows raises.
RecordRequest(league) ==
    /\ Len(request_history[league]) <= get_max_requests_per_minute(league)
    /\ request_history' = record_request(request_history, league, Clock)
    /\ daily_usage' = [daily_usage EXCEPT ![league] = @ + 1]
    /\ out' = [fn |-> "record_request", league |-> league]
    /\ last' = Recorded(last, league, Today)
    /\ UNCHANGED <<epoch, now, last_reset, request_times, games, next_id, polling_hours, po,
                   rc, is_running, sp>>

\* api_tracker.can_make_request(league).
CanMakeRequest(league) ==
    /\ request_history' = cleanup_old_requests(request_history, Clock)
    /\ out' = [fn |-> "can_make_request", league |-> league,
               result |-> can_make_request(request_history, league, Clock)]
    /\ UNCHANGED <<epoch, now, daily_usage, last_reset, request_times, games, next_id,
                   polling_hours, po, rc, is_running, sp, last>>

\* api_tracker.get_wait_time(league), returning at Clock, delay seconds after
\* its purge read the clock.
GetWaitTime(league, delay) ==
    /\ now >= delay
    /\ \A l \in Leagues : \A i \in 1..Len(request_history[l]) :
          request_history[l][i] <= Clock - delay
    /\ request_history' = cleanup_old_requests(request_history, Clock - delay)
    /\ out' = [fn |-> "get_wait_time", league |-> league, delay |-> delay,
               result |-> get_wait_time(request_history, league,
                                        Clock - delay, Clock)]
    /\ UNCHANGED <<epoch, now, daily_usage, last_reset, request_times, games, next_id,
                   polling_hours, po, rc, is_running, sp, last>>

\* api_tracker.get_daily_usage(league).
GetDailyUsage(league) ==
    /\ LET r == get_daily_usage(daily_usage, last_reset, league, Today)
       IN /\ daily_usage' = r.daily
          /\ last_reset' = r.last_reset
          /\ out' = [fn |-> "get_daily_usage", league |-> league,
                     result |-> r.result]
    /\ UNCHANGED <<epoch, now, request_history, request_times, games, next_id,
                   polling_hours, po, rc, is_running, sp, last>>

NextTracker ==
    \/ \E d \in TickSteps : TrackerTick(d)
    \/ \E l \in PolledLeagues : RecordRequest(l)
    \/ \E l \in PolledLeagues : CanMakeRequest(l)
    \/ \E l \in PolledLeagues, delay \in ClockDelays : GetWaitTime(l, delay)
    \/ \E l \in PolledLeagues : GetDailyUsage(l)

SpecTracker == InitTracker /\ [][NextTracker]_vars

\* The tracker with a league whose budget is 0: the league is only asked
\* about, no caller records a request the budget refuses.
BudgetLeagues == PolledLeagues \cup {"WNBA"}

InitBudget ==
    /\ epoch \in StartEpochs
    /\ now = 0
    /\ request_history = [l \in Leagues \cup {"WNBA"} |-> <<>>]
    /\ daily_usage = [l \in Leagues \cup {"WNBA"} |-> 0]
    /\ last_reset = DateOf(epoch)
    /\ request_times = [l \in Leagues |-> <<>>]
    /\ games = {}
    /\ next_id = 3
    /\ polling_hours = DefaultPollingHours
    /\ po = IdlePollOnce
    /\ rc = [p \in Reconcilers |-> IdleReconciler]
    /\ is_running = FALSE
    /\ sp = IdleLoop
    /\ out = NoOut
    /\ last = NoOp

NextBudget ==
    \/ \E d \in TickSteps : TrackerTick(d)
    \/ \E l \in PolledLeagues : RecordRequest(l)
    \/ \E l \in BudgetLeagues : CanMakeRequest(l)
    \/ \E l \in BudgetLeagues, delay \in ClockDelays : GetWaitTime(l, delay)

SpecBudget == InitBudget /\ [][NextBudget]_vars

\* -------------------------------------------------------------- collector
\* Seconds of elapsed time explored for the collectors' own rate limit.
MaxCollectorTime == 130
\* Seconds between two calls of a collector.
CollectorSteps == {10, 60}

\* BaseCollector._check_rate_limit called at second t with the list times:
\* the list it leaves and the seconds it sleeps before it returns.
check_rate_limit(times, league, t) ==
    LET kept == SelectSeq(times, LAMBDA x : t - x < WindowSecs)
        sleep_time == IF Len(kept) >= get_max_requests_per_minute(league)
                      THEN WindowSecs - (t - kept[1]) ELSE 0
    IN [request_times |-> Append(kept, t),
        sleep |-> IF sleep_time > 0 THEN sleep_time ELSE 0]

\* Observation: the seconds, not older than 60 seconds at second t, at which
\* _check_rate_limit returned to a caller about to send its upstream request.
NoneIssued == [op |-> "issued", league |-> "", times |-> [l \in Leagues |-> <<>>]]

Issued(obs, league, t) ==
    LET cur == IF obs.op = "issued" THEN obs ELSE NoneIssued
    IN [cur EXCEPT !.league = league,
                   !.times[league] =
                       SelectSeq(Append(@, t), LAMBDA x : t - x < WindowSecs)]

InitCollector ==
    /\ epoch \in StartEpochs
    /\ now = 0
    /\ request_history = [l \in Leagues |-> <<>>]
    /\ daily_usage = [l \in Leagues |-> 0]
    /\ last_reset = DateOf(epoch)
    /\ request_times = [l \in Leagues |-> <<>>]
    /\ games = {}
    /\ next_id = 3
    /\ polling_hours = DefaultPollingHours
    /\ po = IdlePollOnce
    /\ rc = [p \in Reconcilers |-> IdleReconciler]
    /\ is_running = FALSE
    /\ sp = IdleLoop
    /\ out = NoOut
    /\ last = NoOp

CollectorTick(d) ==
    /\ now + d <= MaxCollectorTime
    /\ now' = now + d
    /\ UNCHANGED <<epoch, request_history, daily_usage, last_reset,
                   request_times, games, next_id, polling_hours, po, rc,
                   is_running, sp, out, last>>

\* A collector method calls self._check_rate_limit() and, on its return,
\* sends its request.
CheckRateLimit(league) ==
    /\ LET r == check_rate_limit(request_times[league], league, Clock)
       IN /\ now + r.sleep <= MaxCollectorTime
          /\ now' = now + r.sleep
          /\ request_times' = [request_times EXCEPT ![league] = r.request_times]
          /\ last' = Issued(last, league, Clock + r.sleep)
    /\ UNCHANGED <<epoch, request_history, daily_usage, last_reset, games,
                   next_id, polling_hours, po, rc, is_running, sp, out>>

NextCollector ==
    \/ \E d \in CollectorSteps : CollectorTick(d)
    \/ \E l \in PolledLeagues : CheckRateLimit(l)

SpecCollector == InitCollector /\ [][NextCollector]_vars

\* ---------------------------------------------------------------- batches
\* Longest batch of snapshots reconciled in one call.
MaxFeed == 2

\* Snapshots of two games of a league on day d.
BatchSnapshots(d) ==
    {Snap("g1", d, "in_progress", 2, 1, FALSE),
     Snap("g1", d, "final", 2, 1, TRUE),
     Snap("g2", d, "scheduled", NoneInt, NoneInt, FALSE)}

BatchFeeds(d) ==
    UNION {[1..n -> Entries(BatchSnapshots(d))] : n \in 0..MaxFeed}

\* self._update_live_games(live_games, league), returning normally.
UpdateLiveGames(league, feed) ==
    /\ out.fn = "none"
    /\ LET r == update_live_games([games |-> games, next_id |-> next_id],
                                  league, feed, Clock)
       IN /\ games' = r.db.games
          /\ next_id' = r.db.next_id
          /\ out' = [fn |-> "update_live_games", league |-> league,
                     feed |-> feed, result |-> r.count]
    /\ UNCHANGED <<epoch, now, request_history, daily_usage, last_reset, request_times, polling_hours,
                   po, rc, is_running, sp, last>>

\* self._store_games(games, league), returning normally.
StoreGames(league, feed) ==
    /\ out.fn = "none"
    /\ LET r == store_games([games |-> games, next_id |-> next_id],
                            league, feed, Clock)
       IN /\ games' = r.db.games
          /\ next_id' = r.db.next_id
          /\ out' = [fn |-> "store_games", league |-> league,
                     feed |-> feed, result |-> r.count]
    /\ UNCHANGED <<epoch, now, request_history, daily_usage, last_reset, request_times, polling_hours,
                   po, rc, is_running, sp, last>>

NextBatch ==
    \/ \E l \in PolledLeagues, feed \in BatchFeeds(Today) :
          UpdateLiveGames(l, feed)
    \/ \E l \in PolledLeagues, feed \in BatchFeeds(Today) :
          StoreGames(l, feed)

SpecBatch == InitStore /\ [][NextBatch]_vars

\* ----------------------------------------------------------- pure queries
\* determine_poll_interval is applied to stores drawn at Init: one game of
\* the league with any date, status, scores and final flag, next to any
\* "other" game of the league and possibly a close game of another league.
ScoreValues == {NoneInt, 0, 3, 4, 10, 11}
DateOffsets == {0 - 2, 0 - 1, 0, 1}

GameRows(id, key, league, today) ==
    {NewRow(id, league, Snap(key, today + o, st, h, v, f), 0) :
        o \in DateOffsets, st \in Statuses, h \in ScoreValues,
        v \in {NoneInt, 0}, f \in BOOLEAN}

OtherRows(id, key, league, today) ==
    {NewRow(id, league, Snap(key, today, "in_progress", 11, 0, FALSE), 0),
     NewRow(id, league, Snap(key, today, "scheduled", NoneInt, NoneInt, FALSE), 0),
     NewRow(id, league, Snap(key, today - 1, "final", 4, 0, TRUE), 0),
     NewRow(id, league, Snap(key, today, "in_progress", 0, 0, TRUE), 0)}

OtherLeague(league) == IF league = "MLB" THEN "NBA" ELSE "MLB"

IntervalStores(today) ==
    UNION {{{a} \cup b \cup c :
              a \in GameRows(1, "g1", l, today),
              b \in {{}} \cup {{x} : x \in OtherRows(2, "g2", l, today)},
              c \in {{}, {NewRow(3, OtherLeague(l),
                            Snap("g3", today, "in_progress", 0, 0, FALSE), 0)}}} :
           l \in Leagues}

\* Day 1 at 03:00:00, 06:00:00, 07:00:00, 12:00:00, 22:00:00 and 23:00:00.
IntervalEpochs == {DaySecs + h * 3600 : h \in {3, 6, 7, 12, 22, 23}}

InitInterval ==
    /\ epoch \in IntervalEpochs
    /\ now = 0
    /\ request_history = [l \in Leagues |-> <<>>]
    /\ daily_usage = [l \in Leagues |-> 0]
    /\ last_reset = DateOf(epoch)
    /\ request_times = [l \in Leagues |-> <<>>]
    /\ games \in IntervalStores(DateOf(epoch))
    /\ next_id = 4
    /\ polling_hours = DefaultPollingHours
    /\ po = IdlePollOnce
    /\ rc = [p \in Reconcilers |-> IdleReconciler]
    /\ is_running = FALSE
    /\ sp = IdleLoop
    /\ out = NoOut
    /\ last = NoOp

\* determine_poll_interval(db, league) is called.
DeterminePollInterval(league) ==
    /\ out' = [fn |-> "determine_poll_interval", league |-> league,
               result |-> determine_poll_interval(games, league, Clock)]
    /\ UNCHANGED <<epoch, now, request_history, daily_usage, last_reset, request_times, games, next_id,
                   polling_hours, po, rc, is_running, sp, last>>

NextInterval == \E l \in Leagues : DeterminePollInterval(l)

SpecInterval == InitInterval /\ [][NextInterval]_vars

\* should_poll_now is applied under configurations and at instants drawn
\* at Init.  Ranges: overnight, the default, daytime, start = end, a string
\* without end time, an hour that does not parse.
ConfigRanges ==
    {<<23, 0, 2, 0>>, <<12, 0, 2, 0>>, <<9, 0, 17, 0>>, <<2, 0, 2, 0>>,
     <<12, 0>>, <<25, 0, 2, 0>>}
MaxRanges == 2
HoursLists == UNION {[1..n -> ConfigRanges] : n \in 0..MaxRanges}

\* Seconds of the day tried.
GateTimes ==
    {Hms(23, 30, 0), Hms(0, 15, 0), Hms(1, 59, 0), Hms(1, 59, 59),
     Hms(2, 0, 0), Hms(2, 0, 1), Hms(2, 1, 0), Hms(12, 0, 0),
     Hms(11, 59, 59), Hms(23, 0, 0), Hms(22, 59, 59), Hms(9, 0, 0),
     Hms(17, 0, 0), Hms(17, 0, 1), Hms(0, 0, 0)}

InitWindow ==
    /\ epoch \in {DaySecs + t : t \in GateTimes}
    /\ now = 0
    /\ request_history = [l \in Leagues |-> <<>>]
    /\ daily_usage = [l \in Leagues |-> 0]
    /\ last_reset = DateOf(epoch)
    /\ request_times = [l \in Leagues |-> <<>>]
    /\ games = {}
    /\ next_id = 1
    /\ polling_hours \in HoursLists
    /\ po = IdlePollOnce
    /\ rc = [p \in Reconcilers |-> IdleReconciler]
    /\ is_running = FALSE
    /\ sp = IdleLoop
    /\ out = NoOut
    /\ last = NoOp

\* should_poll_now() is called.
ShouldPollNow ==
    /\ out' = [fn |-> "should_poll_now", league |-> "",
               result |-> should_poll_now(polling_hours, TimeOfDay(Clock))]
    /\ UNCHANGED <<epoch, now, request_history, daily_usage, last_reset, request_times, games, next_id,
                   polling_hours, po, rc, is_running, sp, last>>

NextWindow == ShouldPollNow

SpecWindow == InitWindow /\ [][NextWindow]_vars

\* ------------------------------------------------------------------ claims
Range(seq) == {seq[i] : i \in 1..Len(seq)}

\* Requests of a league recorded within the trailing 60 seconds.
Trailing(league) ==
    {i \in 1..Len(request_history[league]) :
        request_history[league][i] > Clock - WindowSecs}

\* C1: for every league, the number of requests recorded within the
\* trailing 60-second window never exceeds get_max_requests_per_minute.
C1_BudgetInvariant ==
    \A l \in Leagues :
        Cardinality(Trailing(l)) <= get_max_requests_per_minute(l)

\* C2: with maxRequestsPerMinute requests recorded within the trailing 60
\* seconds can_make_request is false, and once the oldest of exactly
\* maxRequestsPerMinute recorded requests is older than 60 seconds it is
\* true again.
C2_RefusedThenAllowed ==
    \A l \in Leagues :
        LET h == request_history[l]
            max == get_max_requests_per_minute(l)
            recent == {i \in 1..Len(h) : h[i] >= Clock - WindowSecs}
        IN /\ Cardinality(recent) >= max
                => ~can_make_request(request_history, l, Clock)
           /\ (Len(h) = max /\ h[1] < Clock - WindowSecs)
                => can_make_request(request_history, l, Clock)

\* Two requests recorded at the same instant, 61 seconds ago, budget 2.
C2_Witness ==
    LET h == request_history["NBA"]
    IN /\ Len(h) = get_max_requests_per_minute("NBA")
       /\ Len(h) >= 2
       /\ h[1] = h[Len(h)]
       /\ Clock - h[1] = WindowSecs + 1
       /\ can_make_request(request_history, "NBA", Clock)

\* C3: no exception escapes poll_once; every league iterated so far has an
\* entry in results, which is 0 when its collector raised and otherwise the
\* count its own poll attempt returned; on return every requested league has
\* an entry.
C3_FailureIsolation ==
    /\ po.pc /= "aborted"
    /\ po.pc \in {"running", "returned"} =>
          /\ Len(po.pending) <= Len(po.leagues)
          /\ DOMAIN po.results =
                {po.leagues[i] : i \in 1..(Len(po.leagues) - Len(po.pending))}
          /\ \A l \in po.raised : po.results[l] = 0
    /\ (po.pc = "running" /\ last.op = "poll") =>
          po.results[last.league] = last.ret
    /\ po.pc = "returned" => DOMAIN po.results = Range(po.leagues)

\* The first league's collector raised, the next league reported a count.
C3_Witness ==
    /\ po.pc = "returned"
    /\ Len(po.leagues) = 2
    /\ po.leagues[1] \in po.raised
    /\ po.results[po.leagues[1]] = 0
    /\ po.results[po.leagues[2]] > 0

C10_CostAvoidance ==
    (last.op = "poll" /\ ~last.had_today) =>
        (~last.called /\ last.records = 0)

\* A row without its updated_at timestamp.
Strip(rows) == {[r EXCEPT !.updated_at = 0] : r \in rows}

\* C4: reconciling the snapshot that was reconciled last leaves the store as
\* it is, updated_at aside, with exactly one row for its (league, game_id).
C4_Idempotent ==
    [][\A p \in Reconcilers :
          (/\ rc[p].pc \in {"update", "insert"}
           /\ rc'[p].pc = "next"
           /\ last'.ok
           /\ last'.repeat)
          => /\ Strip(games') = Strip(games)
             /\ Cardinality(Matching(games', rc[p].league,
                                     rc[p].snap.game_id)) = 1]_vars

\* A snapshot with scores has been reconciled twice in a row.
C4_Witness ==
    /\ last.op = "reconcile"
    /\ last.ok
    /\ last.repeat
    /\ last.snap.home_score_total /= NoneInt
    /\ Cardinality(Matching(games, last.league, last.snap.game_id)) = 1

\* C5: whatever the interleaving of the two reconcilers, the store holds at
\* most one row per (league, game_id).
C5_OneRowPerKey ==
    \A r1 \in games, r2 \in games :
        (r1.league = r2.league /\ r1.game_id = r2.game_id) => r1 = r2

\* Games of a league the interval policy tracks: dated today or yesterday.
Tracked(league) ==
    {g \in games : g.league = league /\ g.game_date \in {Today - 1, Today}}

\* C6: for a league other than NFL, one tracked, non-final in-progress game
\* whose score differential is at most the league's threshold makes
\* determine_poll_interval return the close-game interval, whatever the
\* other games are.
C6_CloseGamePriority ==
    (/\ out.fn = "determine_poll_interval"
     /\ out.league /= "NFL"
     /\ \E g \in Tracked(out.league) :
           /\ ~g.is_final
           /\ g.game_status = "in_progress"
           /\ g.home_score_total /= NoneInt
           /\ g.visitor_score_total /= NoneInt
           /\ g.home_score_total - g.visitor_score_total
                 <= get_close_game_threshold(out.league)
           /\ g.visitor_score_total - g.home_score_total
                 <= get_close_game_threshold(out.league))
    => out.result = close_game_poll_interval

\* An MLB game exactly at the threshold next to a blowout in progress.
C6_Witness ==
    /\ out.fn = "determine_poll_interval"
    /\ out.league = "MLB"
    /\ out.result = close_game_poll_interval
    /\ \E g \in Tracked("MLB") :
          /\ ~g.is_final /\ g.game_status = "in_progress"
          /\ g.home_score_total = 3 /\ g.visitor_score_total = 0
    /\ \E g \in Tracked("MLB") :
          /\ ~g.is_final /\ g.game_status = "in_progress"
          /\ g.home_score_total = 11 /\ g.visitor_score_total = 0

\* C7: when every tracked game of a league is final, determine_poll_interval
\* returns Stop, or 3600 for NFL, never one of the three polling intervals.
C7_Termination ==
    (/\ out.fn = "determine_poll_interval"
     /\ \A g \in Tracked(out.league) : g.is_final)
    => /\ out.result = IF out.league = "NFL" THEN 3600 ELSE NoInterval
       /\ out.result \notin {close_game_poll_interval, default_poll_interval,
                             scheduled_game_poll_interval}

\* A league whose two tracked games are both final.
C7_Witness ==
    /\ out.fn = "determine_poll_interval"
    /\ out.league /= "NFL"
    /\ Cardinality(Tracked(out.league)) = 2
    /\ \A g \in Tracked(out.league) : g.is_final
    /\ out.result = NoInterval

\* C8: should_poll_now is true exactly when some well-formed configured
\* range contains the time of day, a range with start > end wrapping past
\* midnight; for 23:00-02:00 the times 23:30, 00:15 and 01:59 are inside,
\* 02:01 and 12:00 outside.
C8_WindowGating ==
    out.fn = "should_poll_now" =>
        LET tod == Clock % DaySecs
            Inside(r) ==
                LET start == r[1] * 3600 + r[2] * 60
                    end == r[3] * 3600 + r[4] * 60
                IN IF start <= end THEN start <= tod /\ tod <= end
                   ELSE tod >= start \/ tod <= end
        IN /\ out.result =
                (\E i \in 1..Len(polling_hours) :
                    WellFormed(polling_hours[i]) /\ Inside(polling_hours[i]))
           /\ polling_hours = <<(<<23, 0, 2, 0>>)>> =>
                /\ tod \in {Hms(23, 30, 0), Hms(0, 15, 0), Hms(1, 59, 0)}
                      => out.result
                /\ tod \in {Hms(2, 1, 0), Hms(12, 0, 0)} => ~out.result

\* 00:15 found inside the overnight range 23:00-02:00.
C8_Witness ==
    /\ out.fn = "should_poll_now"
    /\ polling_hours = <<(<<23, 0, 2, 0>>)>>
    /\ Clock % DaySecs = Hms(0, 15, 0)
    /\ out.result

\* The default polling hours 12:00-02:00 do not contain the time of day.
OutsideDefaultHours(t) ==
    TimeOfDay(t) > Hms(2, 0, 0) /\ TimeOfDay(t) < Hms(12, 0, 0)

C11_RefusedReturnsAtOnce ==
    [][(/\ last'.op = "poll"
        /\ last'.consulted
        /\ ~can_make_request(request_history, last'.league, Clock))
       => /\ last'.ret = 0
          /\ ~last'.called
          /\ last'.records = 0
          /\ now' = now
          /\ games' = games
          /\ next_id' = next_id
          /\ daily_usage' = daily_usage
          /\ request_history' = cleanup_old_requests(request_history, Clock)]_vars

\* A poll attempt was refused with the league's budget spent.
C11_Witness ==
    /\ last.op = "poll"
    /\ last.consulted
    /\ ~last.called
    /\ last.ret = 0
    /\ Len(request_history[last.league])
          >= get_max_requests_per_minute(last.league)
    /\ ~can_make_request(request_history, last.league, Clock)

\* C12: a poll attempt that called the collector's live fetch has appended
\* a timestamp to the league's request history and incremented the league's
\* usage counter, whether the fetch returned or raised.
C12_ConsumedOnAttempt ==
    [][(last'.op = "poll" /\ last'.called)
       => LET l == last'.league
              h == request_history'[l]
          IN /\ Len(h) > Len(cleanup_old_requests(request_history, Clock)[l])
             /\ h[Len(h)] = epoch + now'
             /\ daily_usage'[l] > daily_usage[l]]_vars

\* A fetch that brought nothing back was recorded.
C12_Witness ==
    /\ last.op = "poll"
    /\ last.called
    /\ last.ret = 0
    /\ last.records = 1
    /\ request_history[last.league] /= <<>>
    /\ request_history[last.league][Len(request_history[last.league])] = Clock
    /\ daily_usage[last.league] = 1

\* The intervals of the configured leagues that are not Stop.
LeagueIntervals ==
    {determine_poll_interval(games, sp.leagues[i], Clock) :
        i \in 1..Len(sp.leagues)} \ {NoInterval}

LoopActive == sp.pc \in {"top", "poll", "interval", "sleep"}

\* C13: when, after a cycle, determine_poll_interval returns Stop for every
\* configured league, start_polling leaves its loop at once, with no sleep,
\* no further poll and is_running false, and stays stopped.
C13_AllStopEndsLoop ==
    /\ [][(/\ sp.pc = "interval"
           /\ sp'.pc \notin {"interval", "raised"}
           /\ LeagueIntervals = {})
          => /\ sp'.pc = "stopped"
             /\ ~is_running'
             /\ UNCHANGED <<now, request_history, daily_usage, last_reset, request_times, games,
                            next_id>>]_vars
    /\ [][sp.pc = "stopped"
          => /\ sp'.pc = "stopped"
             /\ ~is_running'
             /\ UNCHANGED <<now, request_history, daily_usage, last_reset, request_times, games,
                            next_id>>]_vars

\* The loop has ended after a cycle that polled, every league at Stop.
C13_Witness ==
    /\ last.op = "no_active_games"
    /\ sp.pc = "stopped"
    /\ ~is_running
    /\ Len(sp.leagues) = 2
    /\ LeagueIntervals = {}
    /\ \E l \in Leagues : request_history[l] /= <<>>

\* C14: the sleep between two cycles is the minimum of determine_poll_interval
\* over the configured leagues that did not return Stop, and the loop stops
\* for want of an interval exactly when every league returned Stop.
C14_MinimumInterval ==
    [][(sp.pc = "interval" /\ sp'.pc \in {"sleep", "stopped"})
       => IF LeagueIntervals = {}
          THEN sp'.pc = "stopped"
          ELSE /\ sp'.pc = "sleep"
               /\ sp'.wake - now \in LeagueIntervals
               /\ \A v \in LeagueIntervals : sp'.wake - now <= v]_vars

\* The loop sleeps 60 seconds for a close game while the other league, with
\* a game yet to start, asked for 300.
C14_Witness ==
    /\ last.op = "sleep"
    /\ sp.pc = "sleep"
    /\ sp.wake - now = close_game_poll_interval
    /\ scheduled_game_poll_interval \in LeagueIntervals
    /\ sp.leagues[1] = "MLB"
    /\ determine_poll_interval(games, "MLB", Clock) = close_game_poll_interval

C16_SleepEndsEarly ==
    [][(sp.pc = "sleep" /\ ~is_running /\ sp'.pc /= "sleep")
       => epoch + now' < epoch + sp.wake]_vars

\* C17: no failure raised while a league is handled leaves start_polling as
\* an exception.
C17_NothingEscapes == sp.pc /= "raised"

\* C18: after a snapshot is reconciled into an existing record, that record
\* carries the snapshot's status, scores and final flag, and its league and
\* game_id are the ones it had.
C18_StoredIsSnapshot ==
    [][\A p \in Reconcilers :
          (/\ rc[p].pc = "update"
           /\ rc'[p].pc = "next"
           /\ last'.ok)
          => \E r \in games' :
                /\ r.id = rc[p].loaded.id
                /\ r.league = rc[p].loaded.league
                /\ r.game_id = rc[p].loaded.game_id
                /\ r.game_status = rc[p].snap.game_status
                /\ r.home_score_total = rc[p].snap.home_score_total
                /\ r.visitor_score_total = rc[p].snap.visitor_score_total
                /\ r.is_final = rc[p].snap.is_final]_vars

\* The timestamps of a league not older than 60 seconds at second t.
Kept(league, t) ==
    SelectSeq(request_history[league], LAMBDA x : x >= t - WindowSecs)

\* C19: get_wait_time returns 0 when the league is under budget after the
\* purge, otherwise 60 - (now - oldest timestamp) floored at 0; the result
\* lies within [0, 60].
C19_WaitTime ==
    [][out'.fn = "get_wait_time"
       => LET kept == Kept(out'.league, Clock - out'.delay)
              wait == WindowSecs - (Clock - kept[1])
          IN /\ request_history'[out'.league] = kept
             /\ out'.result =
                   IF Len(kept) < get_max_requests_per_minute(out'.league)
                   THEN 0
                   ELSE IF wait < 0 THEN 0 ELSE wait
             /\ out'.result \in 0..WindowSecs]_vars

\* A league at its maximum whose oldest request aged past 60 seconds
\* between the purge and the computation: the wait time is floored at 0.
C19_Witness ==
    /\ out.fn = "get_wait_time"
    /\ out.delay = 1
    /\ out.result = 0
    /\ Len(request_history[out.league])
          >= get_max_requests_per_minute(out.league)
    /\ Clock - request_history[out.league][1] = WindowSecs + 1

C21_ForceUpdateAll ==
    [][/\ (po.pc = "idle" /\ po'.pc = "running" /\ po'.leagues = collectors)
           => po'.pending = collectors
       /\ (po.pc = "running" /\ po.leagues = collectors /\ po.pending /= <<>>
            /\ po' /= po)
           => /\ last'.op = "poll"
              /\ last'.league = Head(po.pending)
              /\ po'.pending = Tail(po.pending)
              /\ po'.results[last'.league] = last'.ret
              /\ (/\ should_poll_today(games, Today)
                  /\ last'.consulted
                  /\ can_make_request(request_history, last'.league, Clock))
                 => last'.called
       /\ (po'.pc = "returned" /\ po'.leagues = collectors)
           => DOMAIN po'.results = Range(collectors)]_vars

\* A forced update outside the polling hours has returned, with a game
\* updated for some league.
C21_Witness ==
    /\ po.pc = "returned"
    /\ po.leagues = collectors
    /\ ~should_poll_now(polling_hours, TimeOfDay(Clock))
    /\ \E l \in DOMAIN po.results : po.results[l] > 0

\* C22: a poll attempt that does not invoke the collector's fetch records
\* no request: the league's daily counter is unchanged and its request
\* history gains no timestamp.
C22_RecordedOnlyIfInvoked ==
    [][(last'.op = "poll" /\ ~last'.called)
        => /\ daily_usage' = daily_usage
           /\ \A l \in DOMAIN request_history :
                 Len(request_history'[l]) <= Len(request_history[l])]_vars

\* Games of a league that decide its interval: tracked and not final.
Live(league) == {g \in Tracked(league) : ~g.is_final}

\* A game in progress with both scores within the league's threshold.
IsClose(g, league) ==
    /\ g.game_status = "in_progress"
    /\ g.home_score_total /= NoneInt
    /\ g.visitor_score_total /= NoneInt
    /\ g.home_score_total - g.visitor_score_total
          <= get_close_game_threshold(league)
    /\ g.visitor_score_total - g.home_score_total
          <= get_close_game_threshold(league)

\* C23: for NFL with at least one tracked non-final game,
\* determine_poll_interval returns 60 when the hour of the day is 7 to 22
\* and 3600 when it is 23 or later or before 7, whatever the statuses and
\* scores of the games.
C23_TimeOfDayOverride ==
    (/\ out.fn = "determine_poll_interval"
     /\ out.league = "NFL"
     /\ Live("NFL") /= {})
    => out.result = IF (Clock % DaySecs) \div 3600 \in 7..22 THEN 60 ELSE 3600

\* At 23:00 an NFL game in progress and tied still gets the hourly interval.
C23_Witness ==
    /\ out.fn = "determine_poll_interval"
    /\ out.league = "NFL"
    /\ (Clock % DaySecs) \div 3600 = 23
    /\ \E g \in Live("NFL") :
          IsClose(g, "NFL") /\ g.home_score_total = g.visitor_score_total
    /\ out.result = 3600

\* C24 as stated: for every league other than NFL, games in progress none
\* of which is close give default_poll_interval, and non-final games none
\* of which is in progress give scheduled_game_poll_interval.
C24_Original ==
    (/\ out.fn = "determine_poll_interval"
     /\ out.league /= "NFL"
     /\ Live(out.league) /= {})
    => LET started == {g \in Live(out.league) : g.game_status = "in_progress"}
       IN /\ (started /= {} /\ \A g \in started : ~IsClose(g, out.league))
                => out.result = default_poll_interval
          /\ started = {} => out.result = scheduled_game_poll_interval

\* C24: for a league other than NFL, games in progress none of which is
\* close give default_poll_interval, except for NBA, which gets
\* close_game_poll_interval; non-final games none of which is in progress
\* give scheduled_game_poll_interval.
C24_InProgressAndPreGame ==
    (/\ out.fn = "determine_poll_interval"
     /\ out.league /= "NFL"
     /\ Live(out.league) /= {})
    => LET started == {g \in Live(out.league) : g.game_status = "in_progress"}
       IN /\ (started /= {} /\ \A g \in started : ~IsClose(g, out.league))
                => out.result = IF out.league = "NBA"
                                THEN close_game_poll_interval
                                ELSE default_poll_interval
          /\ started = {} => out.result = scheduled_game_poll_interval

\* An MLB blowout in progress next to a game not yet started.
C24_Witness ==
    /\ out.fn = "determine_poll_interval"
    /\ out.league = "MLB"
    /\ out.result = default_poll_interval
    /\ \E g \in Live("MLB") : g.game_status = "in_progress" /\ ~IsClose(g, "MLB")
    /\ \E g \in Live("MLB") : g.game_status = "scheduled"

\* C25: with a malformed range among the configured polling hours,
\* should_poll_now still returns a truth value, the one the well-formed
\* ranges alone give: true exactly when one of them matches the time of day,
\* false when none does or none is left.
C25_MalformedSkipped ==
    (/\ out.fn = "should_poll_now"
     /\ \E i \in 1..Len(polling_hours) : ~WellFormed(polling_hours[i]))
    => LET rest == SelectSeq(polling_hours, WellFormed)
       IN /\ out.result \in BOOLEAN
          /\ out.result = (\E i \in 1..Len(rest) :
                              RangeMatches(rest[i], Clock % DaySecs))
          /\ rest = <<>> => out.result = FALSE

\* An hour that does not parse, listed before the default range, at 00:15.
C25_Witness ==
    /\ out.fn = "should_poll_now"
    /\ polling_hours = <<(<<25, 0, 2, 0>>), (<<12, 0, 2, 0>>)>>
    /\ Clock % DaySecs = Hms(0, 15, 0)
    /\ out.result = TRUE

\* C26: record_request, can_make_request and get_wait_time applied to one
\* league leave unchanged what can_make_request and get_wait_time answer,
\* at that instant, for every other league.
C26_LeagueIndependence ==
    [][out'.fn \in {"record_request", "can_make_request", "get_wait_time"}
        => /\ now' = now
           /\ \A m \in Leagues \ {out'.league} :
                 /\ can_make_request(request_history', m, Clock)
                       = can_make_request(request_history, m, Clock)
                 /\ get_wait_time(request_history', m, Clock, Clock)
                       = get_wait_time(request_history, m, Clock, Clock)]_vars

\* NBA has just spent its budget with a second request while MLB, without a
\* request, may still make one.
C26_Witness ==
    /\ out.fn = "record_request"
    /\ out.league = "NBA"
    /\ ~can_make_request(request_history, "NBA", Clock)
    /\ request_history["MLB"] = <<>>
    /\ can_make_request(request_history, "MLB", Clock)

\* C27: get_daily_usage(league) returns the number of requests recorded for
\* the league on the current calendar day, those recorded after the day
\* rolled over included.
C27_DailyCount ==
    out.fn = "get_daily_usage" => out.result = RecordedToday(out.league)

\* C28: in a cycle of the polling loop, a league whose own poll interval has
\* not elapsed since its last recorded request makes no collector call.
C28_NotItsTurn ==
    [][(sp.pc = "poll" /\ last'.op = "poll" /\ last'.called)
        => LET league == last'.league
               history == request_history[league]
               own == determine_poll_interval(games, league, Clock)
           IN (history /= <<>> /\ own /= NoInterval)
                 => Clock - history[Len(history)] >= own]_vars

\* C29: the poll attempt of a league that follows a collector call of that
\* league which raised makes no collector call.
C29_Cooldown ==
    [][(sp.pc = "poll" /\ last'.op = "poll" /\ last'.league \in sp.failed)
        => ~last'.called]_vars

\* C30: a collector call that raises leaves the tracker (request history and
\* daily counters) in a state other than the one a call of the same duration
\* that returns no game leaves.
C30_FailureRecorded ==
    [][(/\ po.pc = "running"
        /\ last'.op = "poll"
        /\ last'.called
        /\ last'.league \in po'.raised)
        => LET ok == poll_league(PollState, epoch, last'.league,
                         [pre_raises |-> FALSE, fetch_raises |-> FALSE,
                          feed |-> <<>>, exit_fails |-> FALSE,
                          dur |-> now' - now])
           IN <<request_history', daily_usage', last_reset'>>
                 /= <<ok.st.hist, ok.st.daily, last_reset>>]_vars

\* C31: the budget operations never raise: whatever the league, the request
\* history and the configured maximum, can_make_request answers true or
\* false and get_wait_time returns a number of seconds, 0 or more.
C31_NeverRaises ==
    /\ out.fn = "can_make_request" => out.result \in BOOLEAN
    /\ out.fn = "get_wait_time" => out.result /= IndexError /\ out.result >= 0

\* C32: when _check_rate_limit returns, the upstream requests sent after its
\* returns within the last 60 seconds, the one about to be sent included,
\* number at most the collector's max_requests_per_minute, and so do the
\* entries of request_times younger than 60 seconds.
C32_CollectorLimit ==
    last.op = "issued" =>
        /\ Len(last.times[last.league])
              <= get_max_requests_per_minute(last.league)
        /\ Len(SelectSeq(request_times[last.league],
                         LAMBDA x : Clock - x < WindowSecs))
              <= get_max_requests_per_minute(last.league)

\* Steps start_polling has left before it returns, by position.
StepsLeft(pc) ==
    CASE pc = "poll" -> 4
      [] pc = "interval" -> 3
      [] pc = "sleep" -> 2
      [] pc = "top" -> 1
      [] OTHER -> 0

\* C33: once stop_polling has cleared the flag while start_polling runs its
\* loop, no league poll begins, the flag stays cleared, every step of the
\* loop brings it nearer to its end, and start_polling ends by returning,
\* not by an exception.
C33_StopEndsLoop ==
    [][(LoopActive /\ ~is_running)
        => /\ last'.op /= "poll"
           /\ is_running' = FALSE
           /\ StepsLeft(sp'.pc) < StepsLeft(sp.pc)
           /\ sp'.pc /= "raised"]_vars

\* ---- poll_once shortly after midnight, inside the polling hours ----

MidnightEpochs == {2 * DaySecs + Hms(0, 30, 0)}

\* Stores after midnight: a game of yesterday still in progress and a game
\* scheduled for today.
LateRows(d) ==
    {NewRow(1, "MLB", Snap("g1", d - 1, "in_progress", 1, 0, FALSE), 0),
     NewRow(2, "NBA", Snap("g2", d, "scheduled", NoneInt, NoneInt, FALSE), 0)}

\* Poll attempts during which the store answers the pre-check.
AnsweredInputs(feeds) == {inp \in PollInputs(feeds) : ~inp.pre_raises}

InitMidnight ==
    /\ epoch \in MidnightEpochs
    /\ now = 0
    /\ request_history = [l \in Leagues |-> <<>>]
    /\ daily_usage = [l \in Leagues |-> 0]
    /\ last_reset = DateOf(epoch)
    /\ request_times = [l \in Leagues |-> <<>>]
    /\ games \in SUBSET LateRows(DateOf(epoch))
    /\ next_id = 3
    /\ polling_hours = DefaultPollingHours
    /\ po = IdlePollOnce
    /\ rc = [p \in Reconcilers |-> IdleReconciler]
    /\ is_running = FALSE
    /\ sp = IdleLoop
    /\ out = NoOut
    /\ last = NoOp

NextMidnight ==
    \/ \E ls \in LeagueLists : PollOnceBegin(ls)
    \/ \E inp \in AnsweredInputs(PollFeeds(Today)) : PollOnceStep(inp)
    \/ PollOnceReturn

SpecMidnight == InitMidnight /\ [][NextMidnight]_vars

\* C34: the games-today pre-check agrees with the interval policy: when
\* determine_poll_interval gives a league other than NFL an interval (it has
\* a non-final game dated today or yesterday), a poll attempt for that
\* league made inside the polling hours with budget left calls the
\* collector.
C34_PreCheckAgreesWithPolicy ==
    [][(/\ po.pc = "running"
        /\ last'.op = "poll"
        /\ last'.league /= "NFL"
        /\ determine_poll_interval(games, last'.league, Clock) /= NoInterval
        /\ should_poll_now(polling_hours, TimeOfDay(Clock))
        /\ can_make_request(request_history, last'.league, Clock))
       => last'.called]_vars

\* C35: one call of _poll_league adds at most one entry to the league's
\* request history and at most one to its daily counter, also when storing
\* the fetched snapshots fails after a successful fetch.
C35_AtMostOneRecord ==
    [][last'.op = "poll"
       => LET l == last'.league
          IN /\ Len(request_history'[l]) <= Len(request_history[l]) + 1
             /\ daily_usage'[l] <= daily_usage[l] + 1]_vars

C37_WaitAgreesWithBudget ==
    [][(out'.fn = "get_wait_time" /\ out'.delay = 0)
       => (out'.result = 0
           <=> can_make_request(request_history, out'.league, Clock))]_vars
====
